---- MODULE Spec2Model ----
(***************************************************************************)
(* Model of EmailSender (src/EmailSender.py): one send_bulk_emails call    *)
(* that builds one send_email coroutine per recipient, runs them under     *)
(* asyncio.gather(return_exceptions=True) and partitions the addresses.    *)
(*                                                                         *)
(* Scheduling is asyncio's: code between two awaits is atomic.  send_email *)
(* has one await (aiosmtplib.send), so a task takes two steps: the         *)
(* synchronous load/render/build up to the transport call, and the         *)
(* resumption with the transport's outcome.  Exceptions are the            *)
(* Exception-derived errors the three steps raise (FileNotFoundError,      *)
(* ValueError, the transport's errors).                                    *)
(***************************************************************************)
EXTENDS Integers, Sequences, FiniteSets, TLC

\* ------------------------------------------------------------------ bounds
MaxRecipients == 2
MaxAttachments == 1
MaxArgs == 2

\* --------------------------------------------------------------- alphabets
Addrs == {"a@x", "b@x", "c@x"}
NoKey == "<no email key>"
Keys == {"name"}
Values == {"Juan"}

Lit(s) == [kind |-> "lit", text |-> s]
Var(k) == [kind |-> "var", text |-> k]

\* subject strings: without and with a {placeholder}
Subjects == { <<Lit("Status")>>, <<Lit("Status - "), Var("name")>> }
\* MJML template contents: without and with a {{ placeholder }}
Templates == { <<Lit("<mjml>Hola</mjml>")>>,
               <<Lit("<mjml>Hola "), Var("name"), Lit("</mjml>")>> }

\* a variables dict: a function from some of the keys to values
VarDicts == UNION { [K -> Values] : K \in SUBSET Keys }
RecipientRecords == [email : Addrs \cup {NoKey}, variables : VarDicts]

SeqsUpTo(S, n) == UNION { [1..k -> S] : k \in 0..n }

Range(s) == { s[i] : i \in DOMAIN s }

VARIABLES recipients, subject, template, nAttachments,
          pcBulk, idx, tasks, raised, bulkResult, settleOrder

vars == <<recipients, subject, template, nAttachments,
          pcBulk, idx, tasks, raised, bulkResult, settleOrder>>

\* ----------------------------------------------------- subject formatting
\* '"{" in subject'
HasBrace(s) == \E i \in DOMAIN s : s[i].kind = "var"

\* the text of a string that is used verbatim
Verbatim(s) ==
    [i \in DOMAIN s |-> IF s[i].kind = "var" THEN "{" \o s[i].text \o "}" ELSE s[i].text]

\* subject.format(**variables): KeyError when a placeholder's key is absent
FormatRaises(s, variables) ==
    \E i \in DOMAIN s : s[i].kind = "var" /\ s[i].text \notin DOMAIN variables

Format(s, variables) ==
    [i \in DOMAIN s |-> IF s[i].kind = "var" THEN variables[s[i].text] ELSE s[i].text]

\* rendered_subject = subject.format(**variables) if "{" in subject else subject
SubjectRaises(s, variables) == HasBrace(s) /\ FormatRaises(s, variables)

RenderedSubject(s, variables) ==
    IF HasBrace(s) THEN Format(s, variables) ELSE Verbatim(s)

\* ------------------------------------------------------ template rendering
\* jinja2.Template(content).render(**variables) with the default Undefined:
\* a placeholder whose variable is absent renders as the empty string
JinjaRender(content, variables) ==
    [i \in DOMAIN content |->
        IF content[i].kind = "var"
        THEN IF content[i].text \in DOMAIN variables
             THEN variables[content[i].text] ELSE ""
        ELSE content[i].text]

\* ------------------------------------------------------------- send_email
\* The coroutine object send_bulk_emails creates for one recipient; it has
\* not run yet.
NewTask(email, rendered_subject, variables) ==
    [email |-> email, subject |-> rendered_subject, variables |-> variables,
     pc |-> "created", log |-> <<>>, html |-> <<>>, attached |-> 0,
     sends |-> 0, transport |-> "idle", err |-> "none", result |-> "None"]

\* variant: a handler that catches FileNotFoundError only
ExceptHandlerFileNotFoundOnly(t, e) ==
    IF e \in {"TemplateNotFound", "AttachmentNotFound"}
    THEN [t EXCEPT !.pc = "done", !.err = e, !.result = "False"]
    ELSE [t EXCEPT !.pc = "done", !.err = e, !.result = "Raised"]

\* except Exception as e: print(...); return False
ExceptHandler(t, e) ==
    [t EXCEPT !.pc = "done", !.err = e, !.result = "False"]

\* _attach_file for each attachment path in order, until one does not exist
CreateMessage(t, n, firstMissing) ==
    IF firstMissing <= n
    THEN ExceptHandler([t EXCEPT !.log = Append(@, "build"),
                                 !.attached = firstMissing - 1],
                       "AttachmentNotFound")
    ELSE [t EXCEPT !.log = Append(Append(@, "build"), "send"),
                   !.attached = n, !.sends = @ + 1, !.transport = "pending",
                   !.pc = "awaiting"]

\* _render_template, then the rest of the try body
RenderTemplate(t, content, mjmlErrors, n, firstMissing) ==
    IF mjmlErrors
    THEN ExceptHandler([t EXCEPT !.log = Append(@, "render")], "MjmlErrors")
    ELSE CreateMessage([t EXCEPT !.log = Append(@, "render"),
                                 !.html = JinjaRender(content, t.variables)],
                       n, firstMissing)

\* send_email from its start to the await of aiosmtplib.send
SendEmailStart(t, content, exists, mjmlErrors, n, firstMissing) ==
    IF ~exists
    THEN ExceptHandler([t EXCEPT !.log = Append(@, "load")], "TemplateNotFound")
    ELSE RenderTemplate([t EXCEPT !.log = Append(@, "load")],
                        content, mjmlErrors, n, firstMissing)

\* variant: a failed transport call is retried once
SendEmailResumeRetry(t, transportOk) ==
    IF transportOk
    THEN [t EXCEPT !.pc = "done", !.transport = "ok", !.result = "True"]
    ELSE IF t.sends < 2
    THEN [t EXCEPT !.log = Append(@, "send"), !.sends = @ + 1]
    ELSE ExceptHandler([t EXCEPT !.transport = "threw"], "TransportError")

\* send_email resumed with the outcome of aiosmtplib.send
SendEmailResume(t, transportOk) ==
    IF transportOk
    THEN [t EXCEPT !.pc = "done", !.transport = "ok", !.result = "True"]
    ELSE ExceptHandler([t EXCEPT !.transport = "threw"], "TransportError")

\* ------------------------------------------------------- send_bulk_emails
\* variant: the loop awaits each send_email as it builds it
AppendTaskAwaited(ts, t) ==
    Append(ts, [t EXCEPT !.pc = "done", !.log = <<"load", "render", "build", "send">>,
                         !.sends = 1, !.transport = "ok", !.result = "True"])

\* tasks.append((email, task))
AppendTask(ts, t) == Append(ts, t)

\* variant: a task that fails cancels the siblings that have not settled
SetTaskCancelSiblings(ts, i, t) ==
    [j \in DOMAIN ts |->
        IF j = i THEN t
        ELSE IF t.result = "False" /\ ts[j].pc # "done"
             THEN [ts[j] EXCEPT !.pc = "done", !.err = "Cancelled", !.result = "Raised"]
             ELSE ts[j]]

\* one task takes a step; the others are left alone
SetTask(ts, i, t) == [ts EXCEPT ![i] = t]

\* variant: the wait ends at the first task that fails
FirstFailureOrAllSettled(ts) ==
    \/ \A i \in DOMAIN ts : ts[i].pc = "done"
    \/ \E i \in DOMAIN ts : ts[i].pc = "done" /\ ts[i].result # "True"

\* asyncio.gather(..., return_exceptions=True) is done when every task is
AllSettled(ts) == \A i \in DOMAIN ts : ts[i].pc = "done"

\* the results gather delivers: return values, or the exception objects
Gather(ts) ==
    [i \in DOMAIN ts |-> IF ts[i].result = "Raised" THEN "Exc" ELSE ts[i].result]

\* variant: 'result is not None'
IsNotNone(r) == r # "None"

\* 'result is True'
IsTrue(r) == r = "True"

RECURSIVE Emails(_, _, _)
Emails(ts, results, wantTrue) ==
    IF ts = <<>> \/ results = <<>> THEN <<>>
    ELSE (IF IsTrue(Head(results)) = wantTrue THEN <<Head(ts).email>> ELSE <<>>)
         \o Emails(Tail(ts), Tail(results), wantTrue)

\* for (email, _), result in zip(tasks, results): ...
Classify(ts, results) ==
    [success |-> Emails(ts, results, TRUE), failed |-> Emails(ts, results, FALSE)]

\* the order in which the tasks settled (history of the event loop)
Settled(order, ts, i) == IF ts[i].pc = "done" THEN Append(order, i) ELSE order

\* aiosmtplib.send invocations so far
RECURSIVE TransportCalls(_)
TransportCalls(ts) ==
    IF ts = <<>> THEN 0 ELSE Head(ts).sends + TransportCalls(Tail(ts))

\* ------------------------------------------------- Database (database.py)
\* One call of Database.execute_query or Database.call_procedure.
VARIABLES dbCall, dbPc, dbConn, dbExc, dbOutcome

dbVars == <<dbCall, dbPc, dbConn, dbExc, dbOutcome>>

\* the arguments of the call that matter to its control flow
DbCalls ==
    [op : {"execute_query"}, fetchone : {"None", "True", "False"}, commit : BOOLEAN,
     named : {TRUE}, hasParams : BOOLEAN]
    \cup
    [op : {"call_procedure"}, fetchone : {"None"}, commit : {TRUE},
     named : BOOLEAN, hasParams : BOOLEAN]

\* values found in an exception's args; "1644" stands for the integer 1644
Code1644 == "1644"
ArgVals == {Code1644, "1045", "Cursor closed"}

\* the exceptions the driver raises: any args tuple; 'wrapped' says whether
\* the exception carries the orig/statement/params attributes
DriverExcs == [args : SeqsUpTo(ArgVals, MaxArgs), wrapped : BOOLEAN]

\* the places of the try body where the driver can raise
RaisePoints(c) ==
    IF c.op = "execute_query"
    THEN {"execute"} \cup (IF c.commit THEN {"commit"} ELSE {})
                     \cup (IF c.fetchone # "None" THEN {"fetch"} ELSE {})
    ELSE {"callproc", "fetchall", "nextset", "commit"}

NoExc == [at |-> "none", args |-> <<>>, wrapped |-> FALSE]
NoOutcome == [kind |-> "none", type |-> "", status |-> 0, message |-> ""]
NoConn == [opened |-> FALSE, open |-> FALSE, closes |-> 0, rollbacks |-> 0,
           committed |-> FALSE]

\* status_code=500
StatusCode == 500

\* raise AppHttpException(message, status_code=500, context=context)
AppHttp(message) ==
    [kind |-> "raise", type |-> "AppHttpException", status |-> StatusCode,
     message |-> message]

\* an exception other than AppHttpException leaves the method
Escapes(type) == [kind |-> "raise", type |-> type, status |-> 0, message |-> ""]

\* the except block of execute_query after rollback and close: hasattr
\* guards every attribute it reads
ExecuteQueryExcept(e) == AppHttp("Ocurrio un error inesperado en el servidorB")

\* the except block of call_procedure after rollback and close: e.args[0]
\* and e.args[1] are read unguarded
CallProcedureExcept(e) ==
    IF Len(e.args) < 2
    THEN Escapes("IndexError")
    ELSE IF e.args[1] = Code1644
    THEN AppHttp("Ocurrio un error inesperado en el servidor: " \o e.args[2])
    ELSE AppHttp("Ocurrio un error inesperado en el servidorB")

\* the value a successful call returns
DbReturn(c, v) == [kind |-> "return", type |-> v, status |-> 0, message |-> ""]

ReturnValues(c) ==
    IF c.op = "execute_query"
    THEN IF c.fetchone = "True" THEN {"row", "None"}
         ELSE IF c.fetchone = "False" THEN {"rows"}
         ELSE {"lastrowid", "rowcount"}
    ELSE {"False", "result set", "result sets"}

\* no database call is in progress
DbIdle ==
    /\ dbCall = [op |-> "execute_query", fetchone |-> "None", commit |-> FALSE,
                 named |-> TRUE, hasParams |-> FALSE]
    /\ dbPc = "idle"
    /\ dbConn = NoConn
    /\ dbExc = NoExc
    /\ dbOutcome = NoOutcome

\* ------------------------------------------------------------------- Init
Init ==
    /\ recipients \in SeqsUpTo(RecipientRecords, MaxRecipients)
    /\ subject \in Subjects
    /\ template \in Templates
    /\ nAttachments \in 0..MaxAttachments
    /\ pcBulk = "loop"
    /\ idx = 1
    /\ tasks = <<>>
    /\ raised = "none"
    /\ bulkResult = [success |-> <<>>, failed |-> <<>>]
    /\ settleOrder = <<>>
    /\ DbIdle

\* ---------------------------------------------------------------- actions
\* one iteration of 'for recipient in recipients'
BulkLoop ==
    /\ pcBulk = "loop"
    /\ idx <= Len(recipients)
    /\ LET r == recipients[idx] IN
         IF r.email = NoKey
         THEN /\ pcBulk' = "raised"
              /\ raised' = "KeyError:email"
              /\ UNCHANGED <<idx, tasks>>
         ELSE IF SubjectRaises(subject, r.variables)
         THEN /\ pcBulk' = "raised"
              /\ raised' = "KeyError:subject"
              /\ UNCHANGED <<idx, tasks>>
         ELSE /\ tasks' = AppendTask(tasks,
                    NewTask(r.email, RenderedSubject(subject, r.variables), r.variables))
              /\ idx' = idx + 1
              /\ UNCHANGED <<pcBulk, raised>>
    /\ UNCHANGED <<recipients, subject, template, nAttachments, bulkResult,
                   settleOrder>>

\* variant: asyncio.wait, which rejects an empty set of tasks
BulkGatherWait ==
    /\ pcBulk = "loop"
    /\ idx > Len(recipients)
    /\ IF tasks = <<>>
       THEN pcBulk' = "raised" /\ raised' = "ValueError"
       ELSE pcBulk' = "gather" /\ raised' = raised
    /\ UNCHANGED <<recipients, subject, template, nAttachments, idx, tasks,
                   bulkResult, settleOrder>>

\* the loop is over: await asyncio.gather(...) schedules the coroutines
BulkGather ==
    /\ pcBulk = "loop"
    /\ idx > Len(recipients)
    /\ pcBulk' = "gather"
    /\ UNCHANGED <<recipients, subject, template, nAttachments, idx, tasks,
                   raised, bulkResult, settleOrder>>

\* a task runs from its start to its first await (or to its return)
TaskStart(i) ==
    /\ pcBulk = "gather"
    /\ tasks[i].pc = "created"
    /\ \E exists \in BOOLEAN, mjmlErrors \in BOOLEAN,
          firstMissing \in 1..(nAttachments + 1) :
          tasks' = SetTask(tasks, i,
                     SendEmailStart(tasks[i], template, exists, mjmlErrors,
                                    nAttachments, firstMissing))
    /\ settleOrder' = Settled(settleOrder, tasks', i)
    /\ UNCHANGED <<recipients, subject, template, nAttachments, pcBulk, idx,
                   raised, bulkResult>>

\* the transport call of a task completes or throws
TaskResume(i) ==
    /\ pcBulk = "gather"
    /\ tasks[i].pc = "awaiting"
    /\ \E transportOk \in BOOLEAN :
          tasks' = SetTask(tasks, i, SendEmailResume(tasks[i], transportOk))
    /\ settleOrder' = Settled(settleOrder, tasks', i)
    /\ UNCHANGED <<recipients, subject, template, nAttachments, pcBulk, idx,
                   raised, bulkResult>>

\* gather is done: classify and return
BulkReturn ==
    /\ pcBulk = "gather"
    /\ AllSettled(tasks)
    /\ bulkResult' = Classify(tasks, Gather(tasks))
    /\ pcBulk' = "done"
    /\ UNCHANGED <<recipients, subject, template, nAttachments, idx, tasks,
                   raised, settleOrder>>

Next ==
    \/ BulkLoop /\ UNCHANGED dbVars
    \/ BulkGather /\ UNCHANGED dbVars
    \/ (\E i \in DOMAIN tasks : TaskStart(i)) /\ UNCHANGED dbVars
    \/ (\E i \in DOMAIN tasks : TaskResume(i)) /\ UNCHANGED dbVars
    \/ BulkReturn /\ UNCHANGED dbVars

Spec == Init /\ [][Next]_vars

TypeOK ==
    /\ pcBulk \in {"loop", "gather", "done", "raised"}
    /\ idx \in 1..(Len(recipients) + 1)
    /\ Len(tasks) <= Len(recipients)
    /\ \A i \in DOMAIN tasks : tasks[i].pc \in {"created", "awaiting", "done"}

\* ------------------------------------------------------ Database actions
\* no send_bulk_emails call is in progress
EmailIdle ==
    /\ recipients = <<>>
    /\ subject = <<Lit("Status")>>
    /\ template = <<Lit("<mjml>Hola</mjml>")>>
    /\ nAttachments = 0
    /\ pcBulk = "loop"
    /\ idx = 1
    /\ tasks = <<>>
    /\ raised = "none"
    /\ bulkResult = [success |-> <<>>, failed |-> <<>>]
    /\ settleOrder = <<>>

InitDb ==
    /\ EmailIdle
    /\ dbCall \in DbCalls
    /\ dbPc = "start"
    /\ dbConn = NoConn
    /\ dbExc = NoExc
    /\ dbOutcome = NoOutcome

\* self.SessionLocal() in get_session / self.engine.raw_connection(): the
\* latter is outside the try, so an exception of the driver leaves as it is
DbOpen ==
    /\ dbPc = "start"
    /\ \/ /\ dbConn' = [dbConn EXCEPT !.opened = TRUE, !.open = TRUE]
          /\ dbPc' = "opened"
          /\ UNCHANGED <<dbExc, dbOutcome>>
       \/ /\ dbCall.op = "call_procedure"
          /\ \E e \in DriverExcs :
                /\ dbExc' = [at |-> "connect", args |-> e.args, wrapped |-> e.wrapped]
                /\ dbOutcome' = Escapes("DriverError")
          /\ dbPc' = "done"
          /\ UNCHANGED dbConn
    /\ UNCHANGED <<dbCall, vars>>

\* the try body runs to its return
DbExecuteOk ==
    /\ dbPc = "opened"
    /\ \E v \in ReturnValues(dbCall) : dbOutcome' = DbReturn(dbCall, v)
    /\ dbConn' = [dbConn EXCEPT !.committed = dbCall.commit]
    /\ dbPc' = "finally"
    /\ UNCHANGED <<dbCall, dbExc, vars>>

\* the driver raises somewhere in the try body
DbExecuteRaises ==
    /\ dbPc = "opened"
    /\ \E at \in RaisePoints(dbCall), e \in DriverExcs :
          /\ dbExc' = [at |-> at, args |-> e.args, wrapped |-> e.wrapped]
          /\ dbConn' = [dbConn EXCEPT !.committed =
                            dbCall.op = "execute_query" /\ dbCall.commit /\ at = "fetch"]
    /\ dbPc' = "except"
    /\ UNCHANGED <<dbCall, dbOutcome, vars>>

\* except Exception as e: rollback, close, build the context, raise
DbExcept ==
    /\ dbPc = "except"
    /\ dbConn' = [dbConn EXCEPT !.rollbacks = @ + 1, !.open = FALSE, !.closes = @ + 1]
    /\ dbOutcome' = IF dbCall.op = "execute_query"
                    THEN ExecuteQueryExcept(dbExc)
                    ELSE CallProcedureExcept(dbExc)
    /\ dbPc' = "finally"
    /\ UNCHANGED <<dbCall, dbExc, vars>>

\* finally: session.close() / conn.close(); the outcome reaches the caller
DbFinally ==
    /\ dbPc = "finally"
    /\ dbConn' = [dbConn EXCEPT !.open = FALSE, !.closes = @ + 1]
    /\ dbPc' = "done"
    /\ UNCHANGED <<dbCall, dbExc, dbOutcome, vars>>

NextDb ==
    \/ DbOpen
    \/ DbExecuteOk
    \/ DbExecuteRaises
    \/ DbExcept
    \/ DbFinally

SpecDb == InitDb /\ [][NextDb]_dbVars

\* ------------------------------------------------------------- properties
\* every record carries the 'email' key
WellFormed == \A i \in DOMAIN recipients : recipients[i].email # NoKey

\* addresses are unique within the batch
UniqueAddrs ==
    \A i, j \in DOMAIN recipients :
        i # j => recipients[i].email # recipients[j].email

\* the call is over, by a return or by an exception
Ended == pcBulk \in {"done", "raised"}

\* the returned lists partition the input addresses
IsPartition ==
    /\ Len(bulkResult.success) + Len(bulkResult.failed) = Len(recipients)
    /\ Range(bulkResult.success) \cap Range(bulkResult.failed) = {}
    /\ \A i \in DOMAIN recipients :
          recipients[i].email \in Range(bulkResult.success) \cup Range(bulkResult.failed)

\* what does hold: a call that returns, returns a partition
PartitionWhenReturned ==
    (pcBulk = "done" /\ UniqueAddrs) => IsPartition

\* C1: for every batch of records with unique addresses and every subject,
\* the call returns, and the lists it returns partition the input addresses.
C1_AlwaysReturnsPartition ==
    (WellFormed /\ UniqueAddrs /\ Ended) => (pcBulk = "done" /\ IsPartition)

\* the subject has a placeholder that this recipient's variables lack
MissingSubjectKey(i) == SubjectRaises(subject, recipients[i].variables)

\* C2: a subject placeholder missing from one recipient's variables fails
\* that recipient alone: the call returns, the recipient is in 'failed', and
\* every other recipient has a settled task and is classified by its result.
C2_SubjectFailureIsolated ==
    (/\ WellFormed /\ UniqueAddrs /\ Ended
     /\ \E i \in DOMAIN recipients : MissingSubjectKey(i)
     /\ \E i \in DOMAIN recipients : ~MissingSubjectKey(i))
    => /\ pcBulk = "done"
       /\ raised = "none"
       /\ \A i \in DOMAIN recipients :
            IF MissingSubjectKey(i)
            THEN recipients[i].email \in Range(bulkResult.failed)
            ELSE \E j \in DOMAIN tasks :
                    /\ tasks[j].email = recipients[i].email
                    /\ tasks[j].pc = "done"
                    /\ (tasks[j].result = "True")
                         <=> (recipients[i].email \in Range(bulkResult.success))

\* C3: send_email never raises; a missing template, a missing attachment and
\* a transport error each give False, and True is returned in no such case.
C3_SendEmailNeverRaises ==
    \A i \in DOMAIN tasks :
        /\ tasks[i].result # "Raised"
        /\ tasks[i].pc = "done" => tasks[i].result \in {"True", "False"}
        /\ tasks[i].err \in {"TemplateNotFound", "AttachmentNotFound", "TransportError"}
             => (tasks[i].pc = "done" /\ tasks[i].result = "False")
        /\ tasks[i].result = "True" => tasks[i].err = "none"

C3_Witness ==
    \E i, j \in DOMAIN tasks :
        /\ tasks[i].err = "AttachmentNotFound" /\ tasks[i].result = "False"
        /\ tasks[j].err = "TransportError" /\ tasks[j].result = "False"

C5_ReturnsAfterAllSettled ==
    pcBulk = "done" =>
        /\ Len(tasks) = Len(recipients)
        /\ \A i \in DOMAIN tasks : tasks[i].pc = "done"
        /\ Len(settleOrder) = Len(tasks)

\* the first task to settle failed, a later one succeeded, the call returned
C5_Witness ==
    /\ pcBulk = "done"
    /\ Len(settleOrder) >= 2
    /\ tasks[settleOrder[1]].result = "False"
    /\ tasks[settleOrder[Len(settleOrder)]].result = "True"

C7_EmptyBatch ==
    recipients = <<>> =>
        /\ TransportCalls(tasks) = 0
        /\ tasks = <<>>
        /\ pcBulk # "raised"
        /\ pcBulk = "done" => (bulkResult.success = <<>> /\ bulkResult.failed = <<>>)

C7_Witness == recipients = <<>> /\ pcBulk = "done" /\ nAttachments > 0 /\ HasBrace(subject)

\* the template has a placeholder that the variables do not define
UndefinedInTemplate(content, variables) ==
    \E k \in DOMAIN content :
        content[k].kind = "var" /\ content[k].text \notin DOMAIN variables

\* C8: a template placeholder absent from the context fails the render: the
\* transport is not invoked and send_email returns False.
C8_UndefinedFailsRender ==
    \A i \in DOMAIN tasks :
        ("render" \in Range(tasks[i].log) /\ UndefinedInTemplate(template, tasks[i].variables))
        => /\ tasks[i].sends = 0
           /\ tasks[i].pc = "done"
           /\ tasks[i].result = "False"

Steps == <<"load", "render", "build", "send">>

IsPrefix(s, t) == Len(s) <= Len(t) /\ \A k \in DOMAIN s : s[k] = t[k]

\* C9: the steps run in the order load, render, build, transport; the
\* transport is invoked at most once and only after the other steps ended
\* without error; True is returned only if the transport call completed.
C9_StepOrderNoRetry ==
    \A i \in DOMAIN tasks :
        /\ IsPrefix(tasks[i].log, Steps)
        /\ tasks[i].sends <= 1
        /\ tasks[i].sends = Cardinality({k \in DOMAIN tasks[i].log : tasks[i].log[k] = "send"})
        /\ tasks[i].sends = 1 =>
              (tasks[i].err \in {"none", "TransportError"} /\ tasks[i].attached = nAttachments)
        /\ tasks[i].result = "True" => (tasks[i].transport = "ok" /\ tasks[i].log = Steps)
        /\ tasks[i].transport = "threw" => tasks[i].result = "False"

C9_Witness ==
    \E i, j \in DOMAIN tasks :
        /\ tasks[i].result = "True" /\ tasks[i].attached > 0
        /\ tasks[j].transport = "threw" /\ tasks[j].sends = 1 /\ tasks[j].pc = "done"

\* C10: while the subjects are being computed no task has started, so a
\* call that ends with the exception of one recipient has invoked the
\* transport for nobody, the recipients before the offending one included.
C10_SubjectsBeforeAnyTask ==
    pcBulk \in {"loop", "raised"} =>
        /\ TransportCalls(tasks) = 0
        /\ \A i \in DOMAIN tasks : tasks[i].pc = "created" /\ tasks[i].log = <<>>
        /\ settleOrder = <<>>

C10_Witness ==
    /\ pcBulk = "raised"
    /\ raised = "KeyError:subject"
    /\ Len(tasks) >= 1
    /\ Len(tasks) < Len(recipients)

\* the driver raised while the call was executing its try body
RaisedWhileExecuting == dbExc.at \notin {"none", "connect"}

\* what does hold: the session or connection is closed on every path
DbClosedOnEveryPath ==
    dbPc = "done" => (~dbConn.open /\ (dbConn.opened => dbConn.closes >= 1))

\* what does hold: execute_query translates every exception, and
\* call_procedure every exception that carries two args or more
DbTranslatedWhenTwoArgs ==
    (dbPc = "done" /\ RaisedWhileExecuting
       /\ (dbCall.op = "execute_query" \/ Len(dbExc.args) >= 2))
    => (dbOutcome.type = "AppHttpException" /\ dbOutcome.status = StatusCode
          /\ dbConn.rollbacks = 1)

\* C11: every exception the driver raises while execute_query or
\* call_procedure executes reaches the caller as an AppHttpException with
\* status 500, after a rollback, whatever the exception's args; no other
\* exception escapes; the session or connection ends closed.
C11_DriverErrorsTranslated ==
    (dbPc = "done" /\ RaisedWhileExecuting) =>
        /\ dbOutcome.kind = "raise"
        /\ dbOutcome.type = "AppHttpException"
        /\ dbOutcome.status = StatusCode
        /\ dbConn.rollbacks >= 1
        /\ ~dbConn.open
====
